---- MODULE Spec2Model ----
(***************************************************************************)
(* Model of the martin tile server core: the source registry               *)
(* (TileSources), multi-source resolution (get_sources), the TileJSON      *)
(* merge (merge_tilejson), the catalog endpoint and the dynamic            *)
(* registration handler (add_source).                                      *)
(*                                                                         *)
(* Strings are sequences of one-character strings, so that split(',') and  *)
(* format!("{}.{}") are computed, not assumed.  Option<T> is a sequence of *)
(* length 0 (None) or 1 (Some).                                            *)
(***************************************************************************)
EXTENDS Integers, Sequences, FiniteSets, TLC

VARIABLES
    phase,        \* position of the scenario ("init", "built", "serving", "called", "done")
    input,        \* the Vec<TileInfoSources> handed to TileSources::new
    tiles,        \* state.tiles: the registry built at startup
    app_tiles,    \* per worker: the Data<TileSources> registered by the app factory
    app_catalog,  \* per worker: the Data<Catalog> registered by the app factory
    sources,      \* the TileSources inside the Data<Mutex<TileSources>> of add_source
    lock,         \* owner of that Mutex (0 = free)
    poisoned,     \* the poison flag of that Mutex
    tile,         \* the PgSource::get_tile call in progress: arguments and stage
    task,         \* per add_source request task: position and request data
    inserted,     \* history: the [key, source] of every completed insert_source
    req,          \* arguments of the call under test (get_sources / merge_tilejson)
    resp          \* the last response / return value produced

vars == <<phase, input, tiles, app_tiles, app_catalog, sources, lock, poisoned,
          tile, task, inserted, req, resp>>

----------------------------------------------------------------------------
(* Bounds *)

MaxGroups == 2      \* outer length of the Vec<TileInfoSources> given to new
MaxPerGroup == 2    \* length of each inner TileInfoSources
MaxIdsLen == 5      \* characters in a source_ids path segment
MaxZoom == 3        \* largest zoom requested
MaxMerge == 3       \* sources handed to merge_tilejson
NumWorkers == 2     \* HTTP workers (app factory instances)
NumTasks == 2       \* concurrent add_source requests

----------------------------------------------------------------------------
(* Option, Result *)

None == <<>>
Some(v) == <<v>>
is_some(o) == Len(o) = 1
is_none(o) == Len(o) = 0
unwrap(o) == o[1]

Ok(v) == [ok |-> TRUE, val |-> v]
Err(kind, msg) == [ok |-> FALSE, kind |-> kind, msg |-> msg]

\* actix_web::error::ErrorNotFound / ErrorBadRequest / ErrorInternalServerError
ErrorNotFound(msg) == Err("NotFound", msg)
ErrorBadRequest(msg) == Err("BadRequest", msg)
ErrorInternalServerError(msg) == Err("InternalServerError", msg)

\* format!("{}.{}", schema_name, source_name)
format_dot(schema_name, source_name) == schema_name \o <<".">> \o source_name

----------------------------------------------------------------------------
(* TileInfo, TileJSON, Source *)

TileInfo_new(format, encoding) == [format |-> format, encoding |-> encoding]

MvtInfo == TileInfo_new("Mvt", "Uncompressed")
PngInfo == TileInfo_new("Png", "Internal")

\* tilejson! { tiles: ... }: every optional field None, spec version 3.0.0
tilejson_macro(tiles_) ==
    [tilejson |-> <<"3.0.0">>, tiles |-> tiles_, vector_layers |-> None,
     attribution |-> None, bounds |-> None, center |-> None,
     data |-> None, description |-> None, fillzoom |-> None, grids |-> None,
     legend |-> None, maxzoom |-> None, minzoom |-> None, name |-> None,
     scheme |-> None, template |-> None, version |-> None, other |-> <<>>]

\* A producer: what the Source trait exposes of it
\* (get_id, get_tilejson, get_tile_info, support_url_query) and, for a
\* PgSource, its PgSqlInfo.
Source(id, tj, info, use_url_query, sql_query, signature) ==
    [id |-> id, tj |-> tj, info |-> info, use_url_query |-> use_url_query,
     sql_query |-> sql_query, signature |-> signature]

\* PgSource::new + impl Source for PgSource
PgSource_new(id, sql_query, use_url_query, signature, tj) ==
    Source(id, tj, MvtInfo, use_url_query, sql_query, signature)

is_valid_zoom_strict_min(src, zoom) ==
    /\ (is_none(src.tj.minzoom) \/ zoom > unwrap(src.tj.minzoom))
    /\ (is_none(src.tj.maxzoom) \/ zoom <= unwrap(src.tj.maxzoom))
\* Source::is_valid_zoom
is_valid_zoom(src, zoom) ==
    /\ (is_none(src.tj.minzoom) \/ zoom >= unwrap(src.tj.minzoom))
    /\ (is_none(src.tj.maxzoom) \/ zoom <= unwrap(src.tj.maxzoom))

\* content_type() / content_encoding() of martin_tile_utils
content_type(format) ==
    IF format = "Mvt" THEN <<"application/x-protobuf">> ELSE <<"image/png">>
content_encoding(encoding) ==
    IF encoding = "Gzip" THEN Some(<<"gzip">>) ELSE None

\* Source::get_catalog_entry
get_catalog_entry(src) ==
    [content_type |-> content_type(src.info.format),
     content_encoding |-> content_encoding(src.info.encoding),
     name |-> IF is_some(src.tj.name) /\ unwrap(src.tj.name) # src.id
              THEN src.tj.name ELSE None,
     description |-> src.tj.description,
     attribution |-> src.tj.attribution]

----------------------------------------------------------------------------
(* TileSources: a HashMap<String, Box<dyn Source>>, as a function on its keys *)

EmptySources == [k \in {} |-> 0]

\* variant that forgets every other entry
insert_source_clearing(m, key, source) ==
    [k \in {key} |-> source]

\* TileSources::insert_source: HashMap::insert, also what collect() does
insert_source(m, key, source) ==
    [k \in DOMAIN m \cup {key} |-> IF k = key THEN source ELSE m[k]]

RECURSIVE flatten(_)
flatten(groups) ==
    IF groups = <<>> THEN <<>> ELSE Head(groups) \o flatten(Tail(groups))

RECURSIVE collect(_, _)
collect(m, srcs) ==
    IF srcs = <<>> THEN m
    ELSE collect(insert_source(m, Head(srcs).id, Head(srcs)), Tail(srcs))

RECURSIVE collect_by_name(_, _)
collect_by_name(m, srcs) ==
    IF srcs = <<>> THEN m
    ELSE collect_by_name(
             insert_source(m, IF is_some(Head(srcs).tj.name)
                              THEN unwrap(Head(srcs).tj.name) ELSE Head(srcs).id,
                           Head(srcs)),
             Tail(srcs))
TileSources_new_keyed_by_name(groups) == collect_by_name(EmptySources, flatten(groups))
\* TileSources::new: infallible, returns Self
TileSources_new(groups) == collect(EmptySources, flatten(groups))

\* TileSources::get_catalog: a BTreeMap keyed by the registry keys
TileSources_get_catalog(m) == [k \in DOMAIN m |-> get_catalog_entry(m[k])]

\* TileSources::get_source
get_source(m, id) ==
    IF id \in DOMAIN m THEN Ok(m[id])
    ELSE ErrorNotFound(<<"Source", id, "does not exist">>)

\* TileSources::check_zoom (the debug! line has no effect on state)
check_zoom(src, id, zoom) == is_valid_zoom(src, zoom)

\* str::split(','): always at least one piece; "" splits to [""]
RECURSIVE split_acc(_, _, _)
split_acc(s, cur, acc) ==
    IF s = <<>> THEN Append(acc, cur)
    ELSE IF Head(s) = ","
         THEN split_acc(Tail(s), <<>>, Append(acc, cur))
         ELSE split_acc(Tail(s), Append(cur, Head(s)), acc)
\* variant that yields no piece for an empty piece
split_skip_empty(s) == SelectSeq(split_acc(s, <<>>, <<>>), LAMBDA piece : piece # <<>>)
split(s) == split_acc(s, <<>>, <<>>)

\* Option::unwrap on None
Panic == Err("panic", <<"called Option::unwrap() on a None value">>)

\* variant that applies the zoom filter first and skips a dropped source
RECURSIVE get_sources_loop_filter_first(_, _, _, _, _, _)
get_sources_loop_filter_first(m, ids, zoom, srcs, info, use_url_query) ==
    IF ids = <<>>
    THEN IF is_none(info) THEN Panic
         ELSE Ok([sources |-> srcs, use_url_query |-> use_url_query,
                  info |-> unwrap(info)])
    ELSE LET id == Head(ids)
             r == get_source(m, id)
         IN  IF ~r.ok THEN r
             ELSE IF is_some(zoom) /\ ~check_zoom(r.val, id, unwrap(zoom))
             THEN get_sources_loop_filter_first(m, Tail(ids), zoom, srcs,
                      IF is_some(info) THEN info ELSE Some(r.val.info), use_url_query)
             ELSE IF is_some(info) /\ unwrap(info) # r.val.info
             THEN ErrorNotFound(<<"Cannot merge sources with",
                                  unwrap(info), "with", r.val.info>>)
             ELSE get_sources_loop_filter_first(m, Tail(ids), zoom,
                      Append(srcs, r.val), Some(r.val.info),
                      use_url_query \/ r.val.use_url_query)

\* the for loop of TileSources::get_sources and its final Ok(..)
RECURSIVE get_sources_loop(_, _, _, _, _, _)
get_sources_loop(m, ids, zoom, srcs, info, use_url_query) ==
    IF ids = <<>>
    THEN IF is_none(info) THEN Panic
         ELSE Ok([sources |-> srcs, use_url_query |-> use_url_query,
                  info |-> unwrap(info)])
    ELSE LET id == Head(ids)
             r == get_source(m, id)
         IN  IF ~r.ok THEN r
             ELSE LET src == r.val
                      src_inf == src.info
                      uq == use_url_query \/ src.use_url_query
                  IN  IF is_some(info) /\ unwrap(info) # src_inf
                      THEN ErrorNotFound(<<"Cannot merge sources with",
                                           unwrap(info), "with", src_inf>>)
                      ELSE LET keep == IF is_some(zoom)
                                       THEN check_zoom(src, id, unwrap(zoom))
                                       ELSE TRUE
                           IN  get_sources_loop(m, Tail(ids), zoom,
                                   IF keep THEN Append(srcs, src) ELSE srcs,
                                   Some(src_inf), uq)

get_sources_drop_unknown(m, source_ids, zoom) ==
    get_sources_loop(m, SelectSeq(split(source_ids), LAMBDA id : id \in DOMAIN m),
                     zoom, <<>>, None, FALSE)
\* TileSources::get_sources
get_sources(m, source_ids, zoom) ==
    get_sources_loop(m, split(source_ids), zoom, <<>>, None, FALSE)

----------------------------------------------------------------------------
(* merge_tilejson *)

\* impl Add for tilejson::Bounds: the enclosing rectangle
Min(a, b) == IF a < b THEN a ELSE b
Max(a, b) == IF a > b THEN a ELSE b
Bounds_new(left, bottom, right, top) ==
    [left |-> left, bottom |-> bottom, right |-> right, top |-> top]
Bounds_add(a, b) ==
    Bounds_new(Min(a.left, b.left), Min(a.bottom, b.bottom),
               Max(a.right, b.right), Max(a.top, b.top))

contains(list, v) == \E i \in 1..Len(list) : list[i] = v
push_always(list, o) ==
    IF is_some(o) THEN Append(list, unwrap(o)) ELSE list
\* merge_tilejson, lines 96-100, 115-119, 141-145
push_unique(list, o) ==
    IF is_some(o) /\ ~contains(list, unwrap(o)) THEN Append(list, unwrap(o))
    ELSE list

\* Itertools::join
RECURSIVE join(_, _)
join(list, sep) ==
    IF list = <<>> THEN <<>>
    ELSE IF Len(list) = 1 THEN Head(list)
    ELSE Head(list) \o sep \o join(Tail(list), sep)

\* merge_tilejson, lines 88-94: vector_layers of result after one source
merge_vector_layers_first_only(result_vl, tj_vl) ==
    IF is_some(result_vl) THEN result_vl ELSE tj_vl
merge_vector_layers(result_vl, tj_vl) ==
    IF is_some(tj_vl)
    THEN IF is_some(result_vl)
         THEN Some(unwrap(result_vl) \o unwrap(tj_vl))
         ELSE tj_vl
    ELSE result_vl

\* merge_tilejson, lines 102-108: bounds of result after one source
merge_bounds_last(result_bounds, tj_bounds) ==
    IF is_some(tj_bounds) THEN tj_bounds ELSE result_bounds
merge_bounds(result_bounds, tj_bounds) ==
    IF is_some(tj_bounds)
    THEN IF is_some(result_bounds)
         THEN Some(Bounds_add(unwrap(result_bounds), unwrap(tj_bounds)))
         ELSE tj_bounds
    ELSE result_bounds

\* merge_tilejson, lines 121-129: maxzoom of result after one source
merge_maxzoom_flipped(result_maxzoom, tj_maxzoom) ==
    IF is_some(tj_maxzoom)
    THEN IF is_some(result_maxzoom)
         THEN IF unwrap(result_maxzoom) > unwrap(tj_maxzoom)
              THEN tj_maxzoom ELSE result_maxzoom
         ELSE tj_maxzoom
    ELSE result_maxzoom
merge_maxzoom(result_maxzoom, tj_maxzoom) ==
    IF is_some(tj_maxzoom)
    THEN IF is_some(result_maxzoom)
         THEN IF unwrap(result_maxzoom) < unwrap(tj_maxzoom)
              THEN tj_maxzoom ELSE result_maxzoom
         ELSE tj_maxzoom
    ELSE result_maxzoom

\* variant that keeps the first minzoom found
merge_minzoom_first(result_minzoom, tj_minzoom) ==
    IF is_some(result_minzoom) THEN result_minzoom ELSE tj_minzoom

\* merge_tilejson, lines 131-139: minzoom of result after one source
merge_minzoom(result_minzoom, tj_minzoom) ==
    IF is_some(tj_minzoom)
    THEN IF is_some(result_minzoom)
         THEN IF unwrap(result_minzoom) > unwrap(tj_minzoom)
              THEN tj_minzoom ELSE result_minzoom
         ELSE tj_minzoom
    ELSE result_minzoom

\* one iteration of the for loop of merge_tilejson; acc carries result and
\* the attributions / descriptions / names vectors
merge_step(acc, tj) ==
    LET result == acc.result
        center == IF is_none(result.center) THEN tj.center ELSE result.center
    IN  [result |-> [result EXCEPT
                        !.vector_layers = merge_vector_layers(@, tj.vector_layers),
                        !.bounds = merge_bounds(@, tj.bounds),
                        !.center = center,
                        !.maxzoom = merge_maxzoom(@, tj.maxzoom),
                        !.minzoom = merge_minzoom(@, tj.minzoom)],
         attributions |-> push_unique(acc.attributions, tj.attribution),
         descriptions |-> push_unique(acc.descriptions, tj.description),
         names |-> push_unique(acc.names, tj.name)]

RECURSIVE merge_loop(_, _)
merge_loop(acc, srcs) ==
    IF srcs = <<>> THEN acc
    ELSE merge_loop(merge_step(acc, Head(srcs).tj), Tail(srcs))

\* the general path of merge_tilejson (lines 78-160)
merge_many(srcs, tiles_url) ==
    LET acc == merge_loop([result |-> tilejson_macro(<<tiles_url>>),
                           attributions |-> <<>>, descriptions |-> <<>>,
                           names |-> <<>>], srcs)
    IN  [acc.result EXCEPT
           !.attribution = IF acc.attributions # <<>>
                           THEN Some(join(acc.attributions, <<"\n">>)) ELSE @,
           !.description = IF acc.descriptions # <<>>
                           THEN Some(join(acc.descriptions, <<"\n">>)) ELSE @,
           !.name = IF acc.names # <<>>
                    THEN Some(join(acc.names, <<",">>)) ELSE @]

merge_tilejson_no_fast_path(srcs, tiles_url) == merge_many(srcs, tiles_url)
\* merge_tilejson
merge_tilejson(srcs, tiles_url) ==
    IF Len(srcs) = 1
    THEN [srcs[1].tj EXCEPT !.tiles = <<tiles_url>>]
    ELSE merge_many(srcs, tiles_url)

----------------------------------------------------------------------------
(* Dynamic registration and the HTTP handlers *)

\* TileSources::add_source (pg/pg_source.rs): always Ok(()); the new map
TileSources_add_source(m, schema_name, source_name) ==
    LET source_id == format_dot(schema_name, source_name)
        tilejson ==
            [tilejson_macro(<<>>) EXCEPT
                !.tilejson = <<"2.2.0">>,
                !.name = Some(source_name),
                !.description = Some(<<"Dynamic source added: ">> \o source_id),
                !.version = Some(<<"1.0.0">>),
                !.minzoom = Some(0),
                !.maxzoom = Some(22)]
        sql_query == <<"SELECT * FROM ">> \o source_id
        new_pg_source == PgSource_new(source_id, sql_query, FALSE, <<>>, tilejson)
    IN  insert_source(m, source_name, new_pg_source)

\* Catalog::new (srv/server.rs); the sprites and fonts features are off
Catalog_new(state_tiles) ==
    [tiles |-> TileSources_get_catalog(state_tiles), sources |-> EmptySources]

\* get_catalog (srv/server.rs): the body is the Data<Catalog> of the worker
get_catalog(catalog) == Ok(catalog)

\* get_source_info (srv/tiles_info.rs) on the worker's Data<TileSources>
get_source_info(m, http) ==
    LET r == get_sources(m, http.source_ids, None)
        tiles_path ==
            IF is_some(http.base_path)
            THEN unwrap(http.base_path) \o <<"/">> \o http.source_ids
            ELSE IF is_some(http.x_rewrite_url) THEN unwrap(http.x_rewrite_url)
            ELSE <<"/">> \o http.source_ids
        path_and_query ==
            IF http.query_string = <<>>
            THEN tiles_path \o <<"/{z}/{x}/{y}">>
            ELSE tiles_path \o <<"/{z}/{x}/{y}">> \o <<"?">> \o http.query_string
        tiles_url == <<"http://host">> \o path_and_query
    IN  IF ~r.ok THEN r
        ELSE IF ~http.uri_ok THEN ErrorBadRequest(<<"Can't build tiles URL">>)
        ELSE Ok(merge_tilejson(r.val.sources, tiles_url))

\* add_source (srv/tiles_info.rs), lines 264-266: pool.get().await
add_source_pool(pool_ok) ==
    IF pool_ok THEN Ok(<<"conn">>)
    ELSE ErrorInternalServerError(<<"Error getting database connection">>)

add_source_exists_unchecked(outcome, schema_name, source_name) ==
    IF outcome = "error" THEN ErrorBadRequest(<<"Error querying database">>)
    ELSE Ok(<<"exists">>)
\* add_source (srv/tiles_info.rs), lines 268-280: the existence query
add_source_exists(outcome, schema_name, source_name) ==
    IF outcome = "error" THEN ErrorBadRequest(<<"Error querying database">>)
    ELSE IF outcome = "none"
    THEN ErrorBadRequest(<<"Source">> \o format_dot(schema_name, source_name)
                         \o <<"does not exist in the database">>)
    ELSE Ok(<<"exists">>)

\* add_source (srv/tiles_info.rs), lines 287-290
add_source_ok(schema_name, source_name) ==
    Ok(<<"Source">> \o format_dot(schema_name, source_name) \o <<"added successfully">>)

----------------------------------------------------------------------------
(* Values the scenarios draw their inputs from *)

SeqsUpTo(S, n) == UNION {[1..k -> S] : k \in 0..n}

NoCall == [op |-> "none"]
NoWorkers == <<>>

\* A TestSource-like producer (srv/server.rs tests): Mvt, no url query
TestSource(id, tj) == Source(id, tj, MvtInfo, FALSE, <<>>, <<>>)

BuildA1 == TestSource(<<"a">>, [tilejson_macro(<<>>) EXCEPT !.name = Some(<<"x">>)])
BuildA2 == TestSource(<<"a">>, [tilejson_macro(<<>>) EXCEPT !.name = Some(<<"y">>)])
BuildB == TestSource(<<"b">>, [tilejson_macro(<<>>) EXCEPT !.name = Some(<<"b">>)])
BuildPool == {BuildA1, BuildA2, BuildB}
BuildInputs == SeqsUpTo(SeqsUpTo(BuildPool, MaxPerGroup), MaxGroups)
LookupIds == {<<"a">>, <<"b">>, <<"c">>, <<>>}

ZoomTj(minzoom, maxzoom) ==
    [tilejson_macro(<<>>) EXCEPT !.minzoom = minzoom, !.maxzoom = maxzoom]
ResA == Source(<<"a">>, ZoomTj(None, Some(1)), MvtInfo, FALSE, <<>>, <<>>)
ResB == Source(<<"b">>, ZoomTj(Some(1), Some(2)), MvtInfo, TRUE, <<"q">>, <<"f">>)
ResCPng == Source(<<"c">>, ZoomTj(Some(2), None), PngInfo, FALSE, <<>>, <<>>)
ResCMvt == Source(<<"c">>, ZoomTj(Some(2), None), MvtInfo, FALSE, <<>>, <<>>)
ResolveInputs ==
    {<<<<ResA, ResB>>, <<ResCPng>>>>, <<<<ResA, ResB, ResCMvt>>>>, <<<<ResA>>, <<ResB>>>>}
IdChars == {"a", "b", "c", ","}
Zooms == {None} \cup {Some(z) : z \in 0..MaxZoom}

Layer(id) == [id |-> id, fields |-> <<>>]
MergeTj1 ==
    [tilejson_macro(<<>>) EXCEPT !.name = Some(<<"x">>), !.minzoom = Some(1),
        !.maxzoom = Some(2), !.bounds = Some(Bounds_new(-1, -2, 1, 2)),
        !.vector_layers = Some(<<Layer("l1")>>), !.version = Some(<<"1">>)]
MergeTj2 ==
    [tilejson_macro(<<>>) EXCEPT !.name = Some(<<"y">>), !.minzoom = Some(2),
        !.maxzoom = Some(3), !.bounds = Some(Bounds_new(-2, -1, 0, 3)),
        !.vector_layers = Some(<<Layer("l2"), Layer("l1")>>),
        !.description = Some(<<"d">>), !.attribution = Some(<<"t">>),
        !.center = Some(<<0, 1, 2>>)]
MergeTj3 ==
    [tilejson_macro(<<<<"o">>>>) EXCEPT !.name = Some(<<"x">>),
        !.attribution = Some(<<"t">>), !.center = Some(<<1, 1, 1>>),
        !.scheme = Some(<<"tms">>), !.tilejson = <<"2.2.0">>]
MergeTj5 ==
    [tilejson_macro(<<>>) EXCEPT !.name = Some(<<>>), !.minzoom = Some(3),
        !.bounds = Some(Bounds_new(0, 0, 2, 2)), !.description = Some(<<"d">>)]
MergeTj6 ==
    [tilejson_macro(<<>>) EXCEPT !.maxzoom = Some(1), !.vector_layers = Some(<<>>),
        !.attribution = Some(<<"u">>)]
MergePool ==
    {TestSource(<<"a">>, MergeTj1), TestSource(<<"b">>, MergeTj2),
     TestSource(<<"c">>, MergeTj3), TestSource(<<"d">>, tilejson_macro(<<>>)),
     TestSource(<<"e">>, MergeTj5), TestSource(<<"f">>, MergeTj6)}
TileUrls == {<<"u">>, <<"v">>}

----------------------------------------------------------------------------
(* Scenario 1: TileSources::new followed by get_source *)

InitBuild ==
    /\ phase = "init"
    /\ input \in BuildInputs
    /\ tiles = EmptySources
    /\ app_tiles = NoWorkers /\ app_catalog = NoWorkers
    /\ sources = EmptySources /\ lock = 0 /\ poisoned = FALSE /\ tile = NoCall /\ task = <<>>
    /\ inserted = {}
    /\ req = NoCall /\ resp = NoCall

\* let tiles = TileSources::new(input)
BuildNew ==
    /\ phase = "init"
    /\ phase' = "built"
    /\ tiles' = TileSources_new(input)
    /\ req' = [op |-> "new"]
    /\ resp' = [op |-> "new", res |-> Ok(TileSources_new(input))]
    /\ UNCHANGED <<input, app_tiles, app_catalog, sources, lock, poisoned, tile, task, inserted>>

\* tiles.get_source(id)
BuildLookup(id) ==
    /\ phase = "built"
    /\ phase' = "done"
    /\ req' = [op |-> "get_source", id |-> id]
    /\ resp' = [op |-> "get_source", res |-> get_source(tiles, id)]
    /\ UNCHANGED <<input, tiles, app_tiles, app_catalog, sources, lock, poisoned, tile, task, inserted>>

NextBuild == BuildNew \/ \E id \in LookupIds : BuildLookup(id)

SpecBuild == InitBuild /\ [][NextBuild]_vars

----------------------------------------------------------------------------
(* Scenario 2: get_sources on a built registry *)

InitResolve ==
    /\ phase = "init"
    /\ input \in ResolveInputs
    /\ tiles = TileSources_new(input)
    /\ app_tiles = NoWorkers /\ app_catalog = NoWorkers
    /\ sources = EmptySources /\ lock = 0 /\ poisoned = FALSE /\ tile = NoCall /\ task = <<>>
    /\ inserted = {}
    /\ req \in {[op |-> "get_sources", source_ids |-> s, zoom |-> z] :
                    s \in SeqsUpTo(IdChars, MaxIdsLen), z \in Zooms}
    /\ resp = NoCall

\* tiles.get_sources(source_ids, zoom)
Resolve ==
    /\ phase = "init"
    /\ phase' = "done"
    /\ resp' = [op |-> "get_sources", res |-> get_sources(tiles, req.source_ids, req.zoom)]
    /\ UNCHANGED <<input, tiles, app_tiles, app_catalog, sources, lock, poisoned, tile, task, inserted, req>>

NextResolve == Resolve

SpecResolve == InitResolve /\ [][NextResolve]_vars

----------------------------------------------------------------------------
(* Scenario 3: merge_tilejson on a list of sources *)

InitMerge ==
    /\ phase = "init"
    /\ input = <<>>
    /\ tiles = EmptySources
    /\ app_tiles = NoWorkers /\ app_catalog = NoWorkers
    /\ sources = EmptySources /\ lock = 0 /\ poisoned = FALSE /\ tile = NoCall /\ task = <<>>
    /\ inserted = {}
    /\ req \in {[op |-> "merge_tilejson", sources |-> l, tiles_url |-> u] :
                    l \in SeqsUpTo(MergePool, MaxMerge), u \in TileUrls}
    /\ resp = NoCall

\* merge_tilejson(&sources, tiles_url)
Merge ==
    /\ phase = "init"
    /\ phase' = "done"
    /\ resp' = [op |-> "merge_tilejson", res |-> merge_tilejson(req.sources, req.tiles_url)]
    /\ UNCHANGED <<input, tiles, app_tiles, app_catalog, sources, lock, poisoned, tile, task, inserted, req>>

NextMerge == Merge

SpecMerge == InitMerge /\ [][NextMerge]_vars

----------------------------------------------------------------------------
(* PgSource::get_tile: acquire a connection, prepare, execute, extract      *)

MaxCoord == 1       \* largest z, x and y of a requested tile
MaxTileLen == 1     \* bytes in a tile payload

TileCoord(z, x, y) == [z |-> z, x |-> x, y |-> y]

\* the error pool.get() hands back, propagated by `?`
PoolError(e) == Err("PoolError", e)
PrepareQueryError(e, id, signature, sql_query) ==
    Err("PrepareQueryError", [e |-> e, id |-> id, signature |-> signature,
                              sql_query |-> sql_query])
GetTileWithQueryError(e, id, xyz, url_query) ==
    Err("GetTileWithQueryError", [e |-> e, id |-> id, xyz |-> xyz,
                                  url_query |-> url_query])
GetTileError(e, id, xyz) ==
    Err("GetTileError", [e |-> e, id |-> id, xyz |-> xyz])

\* param_types: INT2, INT8, INT8 and JSON when the source takes the url query
get_tile_param_types(src) ==
    IF src.use_url_query THEN <<"INT2", "INT8", "INT8", "JSON">>
    ELSE <<"INT2", "INT8", "INT8">>

\* variant that reports a failed preparation without the statement's text
get_tile_prepare_without_sql(src, prepared) ==
    IF prepared.ok THEN prepared
    ELSE PrepareQueryError(prepared.msg, src.id, src.signature, <<>>)

\* conn.prepare_typed_cached(sql, param_types).await.map_err(..)
get_tile_prepare(src, prepared) ==
    IF prepared.ok THEN prepared
    ELSE PrepareQueryError(prepared.msg, src.id, src.signature, src.sql_query)

\* a result row: its columns, each a type and a nullable value
Col(type, val) == [type |-> type, val |-> val]

\* r.get::<_, Option<TileData>>(0): panics without a column 0 of type bytea
Row_get_0(row) ==
    IF Len(row) = 0 \/ row[1].type # "bytea"
    THEN Err("panic", <<"error retrieving column 0">>)
    ELSE Ok(row[1].val)

\* Option::unwrap_or_default for TileData
unwrap_or_default(o) == IF is_some(o) THEN unwrap(o) ELSE <<>>

\* variant that reports an absent row or a NULL column as an error
get_tile_tile_absent_is_error(src, xyz, url_query, tile_) ==
    IF ~tile_.ok
    THEN IF src.use_url_query
         THEN GetTileWithQueryError(tile_.msg, src.id, xyz, url_query)
         ELSE GetTileError(tile_.msg, src.id, xyz)
    ELSE IF is_none(tile_.val) THEN GetTileError(<<"no row">>, src.id, xyz)
    ELSE LET column == Row_get_0(unwrap(tile_.val))
         IN  IF ~column.ok THEN column
             ELSE IF is_none(column.val) THEN GetTileError(<<"null">>, src.id, xyz)
             ELSE Ok(unwrap(column.val))

\* tile.map(|row| row.and_then(..)).map_err(..)?.unwrap_or_default(), Ok(tile)
get_tile_tile(src, xyz, url_query, tile_) ==
    IF ~tile_.ok
    THEN IF src.use_url_query
         THEN GetTileWithQueryError(tile_.msg, src.id, xyz, url_query)
         ELSE GetTileError(tile_.msg, src.id, xyz)
    ELSE IF is_none(tile_.val) THEN Ok(unwrap_or_default(None))
    ELSE LET column == Row_get_0(unwrap(tile_.val))
         IN  IF column.ok THEN Ok(unwrap_or_default(column.val)) ELSE column

\* the calls of the get_tile scenario
Coords == {TileCoord(z, x, y) : z \in 0..MaxCoord, x \in 0..MaxCoord, y \in 0..MaxCoord}
TileBytes == SeqsUpTo({0, 255}, MaxTileLen)
TileSrcP ==
    PgSource_new(<<"p">>, <<"SELECT p($1, $2, $3)">>, FALSE, <<"p(z, x, y)">>,
                 tilejson_macro(<<>>))
TileSrcQ ==
    PgSource_new(<<"q">>, <<"SELECT q($1, $2, $3, $4)">>, TRUE, <<"q(z, x, y, query)">>,
                 tilejson_macro(<<>>))
TilePool == {TileSrcP, TileSrcQ}
UrlQueries == {None, Some(<<"k=1">>)}
Rows ==
    {<<Col("bytea", None)>>, <<Col("int4", Some(<<1>>))>>,
     <<Col("bytea", Some(<<7>>)), Col("bytea", Some(<<9>>))>>}
    \cup {<<Col("bytea", Some(b))>> : b \in TileBytes}
PoolOutcomes == {Ok("conn"), PoolError(<<"timeout">>)}
PrepareOutcomes == {Ok("statement"), Err("db", <<"syntax error">>)}
QueryOutcomes == {Err("db", <<"execution failed">>), Ok(None)} \cup {Ok(Some(row)) : row \in Rows}

TileCall(src, xyz, url_query) ==
    [op |-> "get_tile", pc |-> "acquire", source |-> src, xyz |-> xyz,
     url_query |-> url_query, stages |-> <<>>, param_types |-> <<>>, query |-> None]

InitTile ==
    /\ phase = "called"
    /\ input = <<>> /\ tiles = EmptySources
    /\ app_tiles = NoWorkers /\ app_catalog = NoWorkers
    /\ sources = EmptySources /\ lock = 0 /\ poisoned = FALSE /\ task = <<>>
    /\ inserted = {}
    /\ tile \in {TileCall(src, xyz, url_query) :
                    src \in TilePool, xyz \in Coords, url_query \in UrlQueries}
    /\ req = NoCall /\ resp = NoCall

\* self.pool.get().await?
TileAcquire(conn) ==
    /\ tile.pc = "acquire"
    /\ IF conn.ok
       THEN /\ tile' = [tile EXCEPT !.pc = "prepare", !.stages = Append(@, "acquire")]
            /\ UNCHANGED <<phase, resp>>
       ELSE /\ tile' = [tile EXCEPT !.pc = "done", !.stages = Append(@, "acquire")]
            /\ phase' = "done"
            /\ resp' = [op |-> "get_tile", res |-> conn]
    /\ UNCHANGED <<input, tiles, app_tiles, app_catalog, sources, lock, poisoned,
                   task, inserted, req>>

\* conn.prepare_typed_cached(sql, param_types).await.map_err(..)?
TilePrepare(prepared) ==
    /\ tile.pc = "prepare"
    /\ LET r == get_tile_prepare(tile.source, prepared)
       IN  IF r.ok
           THEN /\ tile' = [tile EXCEPT !.pc = "execute",
                                        !.stages = Append(@, "prepare"),
                                        !.param_types = get_tile_param_types(tile.source)]
                /\ UNCHANGED <<phase, resp>>
           ELSE /\ tile' = [tile EXCEPT !.pc = "done",
                                        !.stages = Append(@, "prepare"),
                                        !.param_types = get_tile_param_types(tile.source)]
                /\ phase' = "done"
                /\ resp' = [op |-> "get_tile", res |-> r]
    /\ UNCHANGED <<input, tiles, app_tiles, app_catalog, sources, lock, poisoned,
                   task, inserted, req>>

\* conn.query_opt(&prep_query, params).await and the extraction of the tile
TileExecute(outcome) ==
    /\ tile.pc = "execute"
    /\ tile' = [tile EXCEPT !.pc = "done", !.stages = Append(@, "execute"),
                            !.query = Some(outcome)]
    /\ phase' = "done"
    /\ resp' = [op |-> "get_tile",
                res |-> get_tile_tile(tile.source, tile.xyz, tile.url_query, outcome)]
    /\ UNCHANGED <<input, tiles, app_tiles, app_catalog, sources, lock, poisoned,
                   task, inserted, req>>

NextTile ==
    \/ \E conn \in PoolOutcomes : TileAcquire(conn)
    \/ \E prepared \in PrepareOutcomes : TilePrepare(prepared)
    \/ \E outcome \in QueryOutcomes : TileExecute(outcome)

SpecTile == InitTile /\ [][NextTile]_vars

----------------
(* The server: startup, the read handlers on each worker, and add_source    *)
(* requests running as concurrent tasks                                     *)

Workers == 1..NumWorkers
Tasks == 1..NumTasks

StaticC ==
    PgSource_new(<<"c">>, <<"SELECT c">>, FALSE, <<"c()">>,
                 [tilejson_macro(<<>>) EXCEPT !.name = Some(<<"c">>),
                                              !.description = Some(<<"static">>)])
StartupInputs == {<<<<StaticC>>>>}
SchemaNames == {<<"s">>, <<"t">>}
TableNames == {<<"a">>}
Http(source_ids, base_path, x_rewrite_url, query_string, uri_ok) ==
    [source_ids |-> source_ids, base_path |-> base_path,
     x_rewrite_url |-> x_rewrite_url, query_string |-> query_string,
     uri_ok |-> uri_ok]
HttpRequests ==
    {Http(<<"a">>, None, None, <<>>, TRUE),
     Http(<<"s", ".", "a">>, None, None, <<>>, TRUE),
     Http(<<"c">>, None, None, <<>>, TRUE),
     Http(<<"c">>, Some(<<"/p">>), None, <<"k=1">>, TRUE),
     Http(<<"c">>, None, Some(<<"/r">>), <<>>, TRUE),
     Http(<<"c">>, None, None, <<>>, FALSE)}

IdleTask == [pc |-> "idle", schema_name |-> <<>>, source_name |-> <<>>]

\* ServerState holds the registry built by TileSources::new; the
\* Data<Mutex<TileSources>> handed to add_source starts with the same contents.
Init ==
    /\ phase = "init"
    /\ input \in StartupInputs
    /\ tiles = TileSources_new(input)
    /\ app_tiles = NoWorkers /\ app_catalog = NoWorkers
    /\ sources = TileSources_new(input)
    /\ lock = 0 /\ poisoned = FALSE /\ tile = NoCall
    /\ task = [t \in Tasks |-> IdleTask]
    /\ inserted = {}
    /\ req = NoCall /\ resp = NoCall

\* new_server: Catalog::new(&state) once, then the factory runs for every
\* worker and registers clones of state.tiles and of that catalog
NewServer ==
    /\ phase = "init"
    /\ phase' = "serving"
    /\ app_tiles' = [w \in Workers |-> tiles]
    /\ app_catalog' = [w \in Workers |-> Catalog_new(tiles)]
    /\ UNCHANGED <<input, tiles, sources, lock, poisoned, tile, task, inserted, req, resp>>

\* GET /catalog on worker w
GetCatalog(w) ==
    /\ phase = "serving"
    /\ req' = [op |-> "get_catalog", worker |-> w]
    /\ resp' = [op |-> "get_catalog", worker |-> w, res |-> get_catalog(app_catalog[w])]
    /\ UNCHANGED <<phase, input, tiles, app_tiles, app_catalog, sources, lock, poisoned, tile, task,
                   inserted>>

\* GET /{source_ids} on worker w
GetSourceInfo(w, http) ==
    /\ phase = "serving"
    /\ req' = [op |-> "get_source_info", worker |-> w, source_ids |-> http.source_ids]
    /\ resp' = [op |-> "get_source_info", worker |-> w,
                res |-> get_source_info(app_tiles[w], http)]
    /\ UNCHANGED <<phase, input, tiles, app_tiles, app_catalog, sources, lock, poisoned, tile, task,
                   inserted>>

\* variant that takes the guard before the first await
AddSourceStart_lock_first(t, schema_name, source_name) ==
    /\ phase = "serving"
    /\ task[t].pc = "idle"
    /\ lock = 0
    /\ lock' = t
    /\ task' = [task EXCEPT ![t] = [pc |-> "pool", schema_name |-> schema_name,
                                    source_name |-> source_name]]
    /\ UNCHANGED <<phase, input, tiles, app_tiles, app_catalog, sources,
                   inserted, req, resp, poisoned, tile>>

\* POST add_source arrives: task t holds the request body
AddSourceStart(t, schema_name, source_name) ==
    /\ phase = "serving"
    /\ task[t].pc = "idle"
    /\ task' = [task EXCEPT ![t] = [pc |-> "pool", schema_name |-> schema_name,
                                    source_name |-> source_name]]
    /\ UNCHANGED <<phase, input, tiles, app_tiles, app_catalog, sources, lock, poisoned, tile,
                   inserted, req, resp>>

AddSourceReq(t) ==
    [op |-> "add_source", schema_name |-> task[t].schema_name,
     source_name |-> task[t].source_name]
AddSourceResp(t, res) ==
    [op |-> "add_source", schema_name |-> task[t].schema_name,
     source_name |-> task[t].source_name, res |-> res]

\* pool.get().await completes
AddSourcePool(t, pool_ok) ==
    /\ task[t].pc = "pool"
    /\ LET r == add_source_pool(pool_ok)
       IN  IF r.ok
           THEN /\ task' = [task EXCEPT ![t].pc = "query"]
                /\ UNCHANGED <<req, resp, poisoned, tile>>
           ELSE /\ task' = [task EXCEPT ![t] = IdleTask]
                /\ req' = AddSourceReq(t)
                /\ resp' = AddSourceResp(t, r)
    /\ UNCHANGED <<phase, input, tiles, app_tiles, app_catalog, sources, lock, poisoned, tile, inserted>>

\* conn.query_opt(..).await completes with an error, no row, or a row
AddSourceQuery(t, outcome) ==
    /\ task[t].pc = "query"
    /\ LET r == add_source_exists(outcome, task[t].schema_name, task[t].source_name)
       IN  IF r.ok
           THEN /\ task' = [task EXCEPT ![t].pc = "lock"]
                /\ UNCHANGED <<req, resp, poisoned, tile>>
           ELSE /\ task' = [task EXCEPT ![t] = IdleTask]
                /\ req' = AddSourceReq(t)
                /\ resp' = AddSourceResp(t, r)
    /\ UNCHANGED <<phase, input, tiles, app_tiles, app_catalog, sources, lock, poisoned, tile, inserted>>

\* Mutex::lock() on a free mutex followed by unwrap(): Err(PoisonError) when
\* the poison flag is set, and unwrap() panics on it
PoisonError == Err("panic", <<"PoisonError">>)
Mutex_lock_unwrap(flag) == IF flag THEN PoisonError ELSE Ok("guard")

\* sources.lock().unwrap(): blocks until the Mutex is free
AddSourceLock(t) ==
    /\ task[t].pc = "lock"
    /\ lock = 0
    /\ Mutex_lock_unwrap(poisoned).ok
    /\ lock' = t
    /\ task' = [task EXCEPT ![t].pc = "locked"]
    /\ UNCHANGED <<phase, input, tiles, app_tiles, app_catalog, sources, inserted,
                   req, resp, poisoned, tile>>

\* .add_source(schema_name, source_name, &pool).await under the guard, the
\* guard dropped at the end of the statement, then the 200 response
AddSourceInsert(t) ==
    /\ task[t].pc = "locked"
    /\ lock = t
    /\ sources' = TileSources_add_source(sources, task[t].schema_name, task[t].source_name)
    /\ inserted' = inserted \cup
          {[key |-> k, source |-> sources'[k]] :
              k \in {k \in DOMAIN sources' : k \notin DOMAIN sources \/ sources'[k] # sources[k]}}
    /\ lock' = 0
    /\ req' = AddSourceReq(t)
    /\ resp' = AddSourceResp(t, add_source_ok(task[t].schema_name, task[t].source_name))
    /\ task' = [task EXCEPT ![t] = IdleTask]
    /\ UNCHANGED <<phase, input, tiles, app_tiles, app_catalog, poisoned, tile>>

\* sources.lock().unwrap() on the poisoned Mutex: the handler panics, no
\* response is built
AddSourceLockPoisoned(t) ==
    /\ task[t].pc = "lock"
    /\ lock = 0
    /\ ~Mutex_lock_unwrap(poisoned).ok
    /\ req' = AddSourceReq(t)
    /\ resp' = AddSourceResp(t, Mutex_lock_unwrap(poisoned))
    /\ task' = [task EXCEPT ![t] = IdleTask]
    /\ UNCHANGED <<phase, input, tiles, app_tiles, app_catalog, sources, lock,
                   poisoned, tile, inserted>>

\* the writer panics while it holds the guard: unwinding drops the
\* MutexGuard, which sets the poison flag and unlocks; nothing is stored and
\* no response is built
WriterPanic == Err("panic", <<"panicked while holding the guard">>)
AddSourcePanic(t) ==
    /\ task[t].pc = "locked"
    /\ lock = t
    /\ poisoned' = TRUE
    /\ lock' = 0
    /\ req' = AddSourceReq(t)
    /\ resp' = AddSourceResp(t, WriterPanic)
    /\ task' = [task EXCEPT ![t] = IdleTask]
    /\ UNCHANGED <<phase, input, tiles, app_tiles, app_catalog, sources, tile,
                   inserted>>

Next ==
    \/ NewServer
    \/ \E w \in Workers : GetCatalog(w)
    \/ \E w \in Workers, http \in HttpRequests : GetSourceInfo(w, http)
    \/ \E t \in Tasks, sc \in SchemaNames, n \in TableNames : AddSourceStart(t, sc, n)
    \/ \E t \in Tasks, pool_ok \in BOOLEAN : AddSourcePool(t, pool_ok)
    \/ \E t \in Tasks, outcome \in {"error", "none", "row"} : AddSourceQuery(t, outcome)
    \/ \E t \in Tasks : AddSourceLock(t)
    \/ \E t \in Tasks : AddSourceInsert(t)

Spec == Init /\ [][Next]_vars

\* the server with a writer that can panic under the guard
NextFault ==
    \/ Next
    \/ \E t \in Tasks : AddSourcePanic(t)
    \/ \E t \in Tasks : AddSourceLockPoisoned(t)

SpecFault == Init /\ [][NextFault]_vars

----------------------------------------------------------------------------
(* Claims about TileSources::new and get_source (SpecBuild) *)

Supplied == flatten(input)
HasDuplicateIds(srcs) ==
    \E i, j \in 1..Len(srcs) : i # j /\ srcs[i].id = srcs[j].id

\* C1: building the registry from an input that holds two producers with the
\* same source id fails with a configuration error and installs nothing.
C1_DuplicateBuildFails ==
    (phase = "built" /\ HasDuplicateIds(Supplied)) =>
        (~resp.res.ok /\ resp.res.kind = "ConfigurationError" /\ tiles = EmptySources)

\* C2: for a registry built from producers with pairwise distinct ids,
\* get_source(id) returns exactly the producer supplied for that id, and
\* fails with NotFound for every id that was not supplied.
C2_LookupAfterBuild ==
    (phase = "done" /\ req.op = "get_source" /\ ~HasDuplicateIds(Supplied)) =>
        /\ \A i \in 1..Len(Supplied) :
              Supplied[i].id = req.id => resp.res = Ok(Supplied[i])
        /\ (\A i \in 1..Len(Supplied) : Supplied[i].id # req.id) =>
              (~resp.res.ok /\ resp.res.kind = "NotFound")

C2_Witness ==
    /\ phase = "done" /\ req.op = "get_source"
    /\ ~HasDuplicateIds(Supplied)
    /\ Len(Supplied) = 2
    /\ Len(input) = 2
    /\ resp.res = Ok(Supplied[2])

----------------------------------------------------------------------------
(* Claims about get_sources (SpecResolve) *)

\* The ids a comma-separated string names, stated on the string itself: the
\* k-th id lies between the (k-1)-th and the k-th comma.
CommaAt(s) == {p \in 1..Len(s) : s[p] = ","}
NthComma(s, k) ==
    IF k = 0 THEN 0
    ELSE IF k > Cardinality(CommaAt(s)) THEN Len(s) + 1
    ELSE CHOOSE p \in CommaAt(s) : Cardinality({q \in CommaAt(s) : q < p}) = k - 1
RequestedIds(s) ==
    [k \in 1..(Cardinality(CommaAt(s)) + 1) |->
        SubSeq(s, NthComma(s, k - 1) + 1, NthComma(s, k) - 1)]

Resolved == phase = "done" /\ resp.op = "get_sources"
Requested == RequestedIds(req.source_ids)
AllRegistered == \A i \in 1..Len(Requested) : Requested[i] \in DOMAIN tiles
RequestedSources == [i \in 1..Len(Requested) |-> tiles[Requested[i]]]

\* C7: resolution of an id list in which any id is not in the registry fails
\* with NotFound for the whole request, whatever the zoom; when nothing before
\* the first unknown id conflicts, the error names that id.
C7_UnknownIdFailsNotFound ==
    (Resolved /\ ~AllRegistered) =>
        /\ ~resp.res.ok
        /\ resp.res.kind = "NotFound"
        /\ \A i \in 1..Len(Requested) :
              ( /\ Requested[i] \notin DOMAIN tiles
                /\ \A j \in 1..(i - 1) :
                      /\ Requested[j] \in DOMAIN tiles
                      /\ tiles[Requested[j]].info = tiles[Requested[1]].info )
              => resp.res.msg = <<"Source", Requested[i], "does not exist">>

C7_Witness ==
    /\ Resolved
    /\ Len(Requested) = 3
    /\ Requested[1] \in DOMAIN tiles /\ Requested[2] \in DOMAIN tiles
    /\ Requested[3] \notin DOMAIN tiles
    /\ is_some(req.zoom)
    /\ ~resp.res.ok /\ resp.res.kind = "NotFound"

\* C8: resolution of an id list whose sources are all registered but do not all
\* share one (format, encoding) fingerprint fails with a MergeConflict error
\* naming both fingerprints, an error kind distinct from NotFound.
C8_MismatchIsMergeConflict ==
    ( /\ Resolved /\ AllRegistered
      /\ \E i \in 1..Len(Requested) :
            tiles[Requested[i]].info # tiles[Requested[1]].info )
    => /\ ~resp.res.ok
       /\ resp.res.kind = "MergeConflict"
       /\ \E i \in 1..Len(Requested) :
            /\ tiles[Requested[i]].info # tiles[Requested[1]].info
            /\ contains(resp.res.msg, tiles[Requested[1]].info)
            /\ contains(resp.res.msg, tiles[Requested[i]].info)

\* C9: when a zoom z is supplied and resolution succeeds, the returned list is
\* exactly the subsequence, in caller-given order, of the requested sources
\* with (minzoom absent or z >= minzoom) and (maxzoom absent or z <= maxzoom).
ZoomWithin(src, z) ==
    /\ (src.tj.minzoom = None \/ z >= src.tj.minzoom[1])
    /\ (src.tj.maxzoom = None \/ z <= src.tj.maxzoom[1])
C9_ZoomFilterKeepsOrder ==
    (Resolved /\ is_some(req.zoom) /\ resp.res.ok) =>
        resp.res.val.sources =
            SelectSeq(RequestedSources, LAMBDA src : ZoomWithin(src, req.zoom[1]))

C9_Witness ==
    /\ Resolved /\ is_some(req.zoom) /\ resp.res.ok
    /\ Len(Requested) = 3
    /\ ~ZoomWithin(RequestedSources[1], req.zoom[1])
    /\ resp.res.val.sources = <<RequestedSources[2], RequestedSources[3]>>
    /\ RequestedSources[2] # RequestedSources[3]

\* C24: get_sources never panics at info.unwrap(): it returns an error, or a
\* result with at least one source in the returned list and the fingerprint
\* of the sources; the empty id string is rejected with an error.
C24_UnwrapSafeResultNonEmpty ==
    Resolved =>
        /\ ~resp.res.ok => resp.res.kind # "panic"
        /\ resp.res.ok =>
              /\ Len(resp.res.val.sources) >= 1
              /\ \A i \in 1..Len(resp.res.val.sources) :
                    resp.res.val.sources[i].info = resp.res.val.info
        /\ req.source_ids = <<>> => ~resp.res.ok

\* C24 (amended): get_sources never panics at info.unwrap(): it returns an
\* error, or a result for at least one requested id, all of them registered,
\* whose fingerprint is that of every requested source and of every source
\* in the returned list; the returned list is empty exactly when the zoom
\* filter dropped every requested source; the empty id string is rejected
\* with NotFound.
C24_UnwrapSafeFingerprintOfRequested ==
    Resolved =>
        /\ ~resp.res.ok => resp.res.kind # "panic"
        /\ resp.res.ok =>
              /\ Len(Requested) >= 1
              /\ AllRegistered
              /\ \A i \in 1..Len(Requested) : RequestedSources[i].info = resp.res.val.info
              /\ \A i \in 1..Len(resp.res.val.sources) :
                    resp.res.val.sources[i].info = resp.res.val.info
              /\ resp.res.val.sources = <<>> <=>
                    /\ is_some(req.zoom)
                    /\ \A i \in 1..Len(Requested) :
                          ~ZoomWithin(RequestedSources[i], req.zoom[1])
        /\ req.source_ids = <<>> =>
              /\ ~resp.res.ok /\ resp.res.kind = "NotFound"
              /\ resp.res.msg = <<"Source", <<>>, "does not exist">>

C24_Witness ==
    /\ Resolved
    /\ resp.res.ok
    /\ Len(Requested) = 2
    /\ resp.res.val.sources = <<>>
    /\ resp.res.val.info = MvtInfo

\* C25: the fingerprint check and the OR of support_url_query cover every
\* requested id, also the sources the zoom filter drops: a list of registered
\* ids with two fingerprints fails with the merge error at any zoom, also
\* when the mismatching source is outside the zoom; the returned flag is the
\* OR over all requested sources, whatever the returned list holds.
C25_CheckAndFlagCoverDroppedSources ==
    (Resolved /\ AllRegistered) =>
        /\ (\E i \in 1..Len(Requested) :
               RequestedSources[i].info # RequestedSources[1].info)
           => /\ ~resp.res.ok
              /\ resp.res.msg[1] = "Cannot merge sources with"
        /\ resp.res.ok =>
              resp.res.val.use_url_query =
                  \E i \in 1..Len(Requested) : RequestedSources[i].use_url_query

C25_Witness ==
    /\ Resolved
    /\ resp.res.ok
    /\ resp.res.val.use_url_query
    /\ resp.res.val.sources # <<>>
    /\ \A i \in 1..Len(resp.res.val.sources) : ~resp.res.val.sources[i].use_url_query

----------------------------------------------------------------------------
(* Claims about merge_tilejson (SpecMerge) *)

Merged == phase = "done" /\ resp.op = "merge_tilejson"

\* C10: merge_tilejson on a list of exactly one source returns that source's
\* metadata with tiles replaced by the single caller-constructed URL and every
\* other field unchanged.
C10_SingleSourceOnlyTilesReplaced ==
    (Merged /\ Len(req.sources) = 1) =>
        /\ resp.res.tiles = <<req.tiles_url>>
        /\ DOMAIN resp.res = DOMAIN req.sources[1].tj
        /\ \A f \in DOMAIN resp.res \ {"tiles"} : resp.res[f] = req.sources[1].tj[f]

C10_Witness ==
    /\ Merged /\ Len(req.sources) = 1
    /\ req.sources[1].tj.tiles # <<req.tiles_url>>
    /\ is_some(req.sources[1].tj.scheme)
    /\ resp.res.scheme = req.sources[1].tj.scheme
    /\ resp.res.tiles = <<req.tiles_url>>

Tjs == [i \in 1..Len(req.sources) |-> req.sources[i].tj]
MergedMany == Merged /\ Len(req.sources) >= 2
Present(field) == {i \in 1..Len(Tjs) : Tjs[i][field] # None}
Largest(S) == CHOOSE m \in S : \A n \in S : n <= m
Smallest(S) == CHOOSE m \in S : \A n \in S : m <= n

\* C11: for two or more sources the merged maxzoom is the maximum of the
\* maxzoom values of the sources that define one, the merged minzoom the
\* minimum of the defined minzoom values; a zoom field no source defines is
\* absent.
C11_MergedZoomIsMaxAndMin ==
    MergedMany =>
        /\ resp.res.maxzoom =
              IF Present("maxzoom") = {} THEN None
              ELSE Some(Largest({Tjs[i].maxzoom[1] : i \in Present("maxzoom")}))
        /\ resp.res.minzoom =
              IF Present("minzoom") = {} THEN None
              ELSE Some(Smallest({Tjs[i].minzoom[1] : i \in Present("minzoom")}))

C11_Witness ==
    /\ MergedMany
    /\ Len(Tjs) = 3
    /\ Tjs[1].maxzoom = None /\ Tjs[1].minzoom # None
    /\ Tjs[2].maxzoom # None /\ Tjs[3].maxzoom # None
    /\ Tjs[2].maxzoom[1] < Tjs[3].maxzoom[1]
    /\ Tjs[3].minzoom # None /\ Tjs[3].minzoom[1] < Tjs[1].minzoom[1]
    /\ resp.res.maxzoom = Tjs[3].maxzoom
    /\ resp.res.minzoom = Tjs[3].minzoom

\* C12: if every source's metadata is internally consistent (minzoom <=
\* maxzoom when both present, west <= east and south <= north when bounds are
\* present), the document merge_tilejson returns for any list of those sources
\* is internally consistent too.
Consistent(tj) ==
    /\ (tj.minzoom # None /\ tj.maxzoom # None) => tj.minzoom[1] <= tj.maxzoom[1]
    /\ tj.bounds # None =>
          /\ tj.bounds[1].left <= tj.bounds[1].right
          /\ tj.bounds[1].bottom <= tj.bounds[1].top
C12_MergePreservesConsistency ==
    (Merged /\ \A i \in 1..Len(Tjs) : Consistent(Tjs[i])) => Consistent(resp.res)

\* C13: for two or more sources the merged bounds are the smallest rectangle
\* containing the bounds of every source that has bounds; a source without
\* bounds contributes nothing, and with no bounds at all the result has none.
C13_MergedBoundsIsEnclosingRectangle ==
    MergedMany =>
        resp.res.bounds =
            IF Present("bounds") = {} THEN None
            ELSE Some([left |-> Smallest({Tjs[i].bounds[1].left : i \in Present("bounds")}),
                       bottom |-> Smallest({Tjs[i].bounds[1].bottom : i \in Present("bounds")}),
                       right |-> Largest({Tjs[i].bounds[1].right : i \in Present("bounds")}),
                       top |-> Largest({Tjs[i].bounds[1].top : i \in Present("bounds")})])

C13_Witness ==
    /\ MergedMany
    /\ Len(Tjs) = 3
    /\ Tjs[1].bounds # None /\ Tjs[2].bounds = None /\ Tjs[3].bounds # None
    /\ resp.res.bounds # None
    /\ resp.res.bounds # Tjs[1].bounds /\ resp.res.bounds # Tjs[3].bounds

\* C14: for two or more sources each of name, description and attribution is
\* the join of the values the sources have for that field, in resolution
\* order with later duplicates removed, joined with a newline (attribution,
\* description) or a comma (name); a field absent from every source is absent.
FirstOccurrences(field) ==
    SelectSeq([i \in 1..Len(Tjs) |-> <<i, Tjs[i][field]>>],
              LAMBDA p : /\ p[2] # None
                         /\ \A j \in 1..(p[1] - 1) : Tjs[j][field] # p[2])
JoinedWith(pairs, sep) ==
    LET F[k \in 0..Len(pairs)] ==
            IF k = 0 THEN <<>>
            ELSE IF k = 1 THEN pairs[1][2][1]
            ELSE F[k - 1] \o sep \o pairs[k][2][1]
    IN  F[Len(pairs)]
ExpectedText(field, sep) ==
    IF Present(field) = {} THEN None
    ELSE Some(JoinedWith(FirstOccurrences(field), sep))
C14_TextFieldsJoinedWithoutDuplicates ==
    MergedMany =>
        /\ resp.res.name = ExpectedText("name", <<",">>)
        /\ resp.res.description = ExpectedText("description", <<"\n">>)
        /\ resp.res.attribution = ExpectedText("attribution", <<"\n">>)

C14_Witness ==
    /\ MergedMany
    /\ Len(Tjs) = 3
    /\ Tjs[1].name = Some(<<"x">>) /\ Tjs[2].name = Some(<<"y">>)
    /\ Tjs[3].name = Some(<<"x">>)
    /\ resp.res.name = Some(<<"x", ",", "y">>)
    /\ Tjs[1].attribution = None
    /\ resp.res.attribution = Some(<<"t">>)
    /\ resp.res.description = Some(<<"d">>)

\* C15: for two or more sources the merged vector-layer list is the
\* concatenation, in resolution order, of each source's own layer list, with
\* no layer removed or reordered even when two sources have a layer of the
\* same name; it is absent only if no source defines vector layers.
AllLayers ==
    LET F[k \in 0..Len(Tjs)] ==
            IF k = 0 THEN <<>>
            ELSE IF Tjs[k].vector_layers = None THEN F[k - 1]
            ELSE F[k - 1] \o Tjs[k].vector_layers[1]
    IN  F[Len(Tjs)]
C15_VectorLayersConcatenated ==
    MergedMany =>
        resp.res.vector_layers =
            IF Present("vector_layers") = {} THEN None ELSE Some(AllLayers)

C15_Witness ==
    /\ MergedMany
    /\ Len(Tjs) = 3
    /\ Tjs[1].vector_layers = Some(<<Layer("l2"), Layer("l1")>>)
    /\ Tjs[2].vector_layers = None
    /\ Tjs[3].vector_layers = Some(<<Layer("l1")>>)
    /\ resp.res.vector_layers = Some(<<Layer("l2"), Layer("l1"), Layer("l1")>>)

\* the orderings of the requested source list, and the list in ordering f
Orderings ==
    {f \in [1..Len(req.sources) -> 1..Len(req.sources)] :
        \A i, j \in DOMAIN f : i # j => f[i] # f[j]}
Reordered(f) == [i \in 1..Len(req.sources) |-> req.sources[f[i]]]
MergedIn(f) == merge_tilejson(Reordered(f), req.tiles_url)

Count(seq, x) == Cardinality({i \in DOMAIN seq : seq[i] = x})

\* text is the parts of the merged field put in some other order
SamePartsOf(field, sep, text) ==
    IF resp.res[field] = None \/ ~MergedMany THEN text = resp.res[field]
    ELSE LET parts == FirstOccurrences(field)
         IN  \E g \in [1..Len(parts) -> 1..Len(parts)] :
                /\ \A i, j \in DOMAIN g : i # j => g[i] # g[j]
                /\ text = Some(JoinedWith([i \in 1..Len(parts) |-> parts[g[i]]], sep))

\* layers is the merged vector-layer list in some other order
SameLayersAs(layers) ==
    IF resp.res.vector_layers = None \/ layers = None
    THEN layers = resp.res.vector_layers
    ELSE /\ Len(layers[1]) = Len(resp.res.vector_layers[1])
         /\ \A i \in DOMAIN layers[1] :
               Count(layers[1], layers[1][i]) = Count(resp.res.vector_layers[1], layers[1][i])

OrderOnlyFields == {"name", "description", "attribution", "vector_layers"}

SameUpToOrder(m) ==
    /\ SamePartsOf("name", <<",">>, m.name)
    /\ SamePartsOf("description", <<"\n">>, m.description)
    /\ SamePartsOf("attribution", <<"\n">>, m.attribution)
    /\ SameLayersAs(m.vector_layers)

\* C23: merging the same sources in any other order changes, at most, the
\* order of the parts of name, description and attribution and the order of
\* the vector layers; every other field of the merged document is the same.
C23_OnlyPartOrderDependsOnSourceOrder ==
    Merged =>
        \A f \in Orderings :
            /\ SameUpToOrder(MergedIn(f))
            /\ \A field \in DOMAIN resp.res \ OrderOnlyFields :
                  MergedIn(f)[field] = resp.res[field]

\* the center of the first source of the list that has one
FirstCenter(srcs) ==
    LET with == SelectSeq(srcs, LAMBDA src : src.tj.center # None)
    IN  IF with = <<>> THEN None ELSE with[1].tj.center

\* C23 (amended): merging the same sources in any other order changes, at
\* most, the order of the parts of name, description and attribution, the
\* order of the vector layers, and center, which is the center of the first
\* source of the list that has one; every other field is the same.
C23_OnlyPartOrderAndCenterDependOnSourceOrder ==
    Merged =>
        \A f \in Orderings :
            /\ SameUpToOrder(MergedIn(f))
            /\ MergedIn(f).center = FirstCenter(Reordered(f))
            /\ \A field \in DOMAIN resp.res \ (OrderOnlyFields \cup {"center"}) :
                  MergedIn(f)[field] = resp.res[field]

C23_Witness ==
    /\ MergedMany
    /\ Len(Tjs) = 3
    /\ Tjs[1].center # None /\ Tjs[3].center # None /\ Tjs[1].center # Tjs[3].center
    /\ Tjs[1].minzoom # None /\ Tjs[2].minzoom # None
    /\ Tjs[1].minzoom[1] > Tjs[2].minzoom[1]
    /\ resp.res.center = Tjs[1].center
    /\ \E f \in Orderings :
          /\ MergedIn(f).center = Tjs[3].center
          /\ MergedIn(f).name # resp.res.name
          /\ MergedIn(f).minzoom = resp.res.minzoom

----------------------------------------------------------------------------
(* Claims about PgSource::get_tile (SpecTile) *)

\* the outcome of query_opt of a finished call that reached execution
Executed == tile.pc = "done" /\ is_some(tile.query)
QueryResult == unwrap(tile.query)
FirstColumn == unwrap(QueryResult.val)[1]

\* C16: when acquisition, preparation and execution all succeeded, get_tile
\* returns Ok with an empty byte sequence if the query gave no row or a row
\* whose first column is NULL, and Ok with exactly the first column's bytes
\* if that column is non-NULL.
C16_AbsentOrNullIsEmptyTile ==
    (Executed /\ QueryResult.ok) =>
        IF is_none(QueryResult.val) THEN resp.res = Ok(<<>>)
        ELSE FirstColumn.type = "bytea" =>
                IF is_none(FirstColumn.val) THEN resp.res = Ok(<<>>)
                ELSE resp.res = Ok(unwrap(FirstColumn.val))

C16_Witness ==
    /\ Executed /\ QueryResult.ok
    /\ is_some(QueryResult.val)
    /\ FirstColumn = Col("bytea", None)
    /\ tile.stages = <<"acquire", "prepare", "execute">>
    /\ resp.res = Ok(<<>>)

\* C22: a get_tile call runs acquire, prepare, execute in this order, each at
\* most once; the first stage that fails ends the call with its own error and
\* no later stage runs: PoolError for acquisition; PrepareQueryError with the
\* source id, signature and SQL text for preparation; for execution
\* GetTileWithQueryError with the url query when the source takes the url
\* query, and GetTileError otherwise, both with the source id and coordinate.
C22_StagesInOrderFirstFailureEnds ==
    /\ tile.stages = SubSeq(<<"acquire", "prepare", "execute">>, 1, Len(tile.stages))
    /\ tile.pc = "acquire" <=> tile.stages = <<>>
    /\ tile.pc = "prepare" <=> tile.stages = <<"acquire">> /\ resp = NoCall
    /\ tile.pc = "execute" <=> tile.stages = <<"acquire", "prepare">> /\ resp = NoCall
    /\ tile.pc = "done" =>
          /\ Len(tile.stages) = 1 =>
                ~resp.res.ok /\ resp.res.kind = "PoolError"
          /\ Len(tile.stages) = 2 =>
                /\ ~resp.res.ok /\ resp.res.kind = "PrepareQueryError"
                /\ resp.res.msg.id = tile.source.id
                /\ resp.res.msg.signature = tile.source.signature
                /\ resp.res.msg.sql_query = tile.source.sql_query
          /\ (Len(tile.stages) = 3 /\ ~QueryResult.ok) =>
                /\ ~resp.res.ok
                /\ resp.res.msg.e = QueryResult.msg
                /\ resp.res.msg.id = tile.source.id
                /\ resp.res.msg.xyz = tile.xyz
                /\ IF tile.source.use_url_query
                   THEN /\ resp.res.kind = "GetTileWithQueryError"
                        /\ resp.res.msg.url_query = tile.url_query
                   ELSE resp.res.kind = "GetTileError"
          /\ (~resp.res.ok /\ resp.res.kind \in {"GetTileError", "GetTileWithQueryError"})
                => (Len(tile.stages) = 3 /\ ~QueryResult.ok)

C22_Witness ==
    /\ tile.pc = "done"
    /\ tile.stages = <<"acquire", "prepare">>
    /\ resp.res.kind = "PrepareQueryError"
    /\ resp.res.msg.sql_query = <<"SELECT q($1, $2, $3, $4)">>
    /\ is_none(tile.query)

----------------------------------------------------------------------------
(* Claims about the running server (Spec) *)

\* the newest completed insert under each key
NewestInserted == {e \in inserted : sources[e.key] = e.source}

\* C3: any lookup, including the lookups of the request handlers on any
\* worker, that begins after an insert of id I has completed returns the newly
\* inserted producer for I.
C3_LookupSeesCompletedInsert ==
    phase = "serving" =>
        \A e \in NewestInserted, w \in Workers :
            get_source(app_tiles[w], e.key) = Ok(e.source)

\* C4: a successful dynamic registration of (schema, table) installs the
\* producer under the key schema.table, equal to the producer's own id: lookup
\* of schema.table returns it, every key equals the id of the producer stored
\* under it, and the same table in another schema is a second entry.
C4_RegisteredUnderSchemaDotTable ==
    (resp.op = "add_source" /\ resp.res.ok) =>
        LET id == format_dot(resp.schema_name, resp.source_name)
        IN  /\ get_source(sources, id).ok
            /\ get_source(sources, id).val.id = id
            /\ \A k \in DOMAIN sources : sources[k].id = k
            /\ \A e \in inserted : get_source(sources, e.source.id).ok

\* C5: after a dynamic registration completes, the next catalog read served to
\* a client has an entry for the new source; the served catalog is derived
\* from the registry's current contents, never from an earlier snapshot.
C5_CatalogReflectsRegistration ==
    phase = "serving" =>
        \A w \in Workers :
            LET served == get_catalog(app_catalog[w])
            IN  /\ served.ok
                /\ \A e \in NewestInserted :
                      \E k \in DOMAIN served.val.tiles :
                          served.val.tiles[k] = get_catalog_entry(e.source)
                /\ served.val.tiles = TileSources_get_catalog(sources)

\* C6: registration of a schema/table that the existence check reports absent
\* returns BadRequest and ends the request, and no step of such a request
\* changes the registry or the catalog.
C6_AbsentTableBadRequestNoMutation ==
    [][\A t \in Tasks :
          /\ AddSourceQuery(t, "none") =>
                /\ resp'.op = "add_source"
                /\ resp'.schema_name = task[t].schema_name
                /\ resp'.source_name = task[t].source_name
                /\ ~resp'.res.ok
                /\ resp'.res.kind = "BadRequest"
                /\ task'[t].pc = "idle"
                /\ sources' = sources
                /\ inserted' = inserted
                /\ TileSources_get_catalog(sources') = TileSources_get_catalog(sources)
                /\ app_catalog' = app_catalog
          /\ (task'[t] # task[t] /\ task[t].pc \in {"idle", "pool", "query"}) =>
                sources' = sources
      ]_vars

C6_Witness ==
    /\ resp.op = "add_source"
    /\ ~resp.res.ok
    /\ resp.res.kind = "BadRequest"
    /\ resp.res.msg = <<"Source">> \o format_dot(resp.schema_name, resp.source_name)
                      \o <<"does not exist in the database">>
    /\ inserted # {}
    /\ resp.source_name \in DOMAIN sources
    /\ sources[resp.source_name].id # format_dot(resp.schema_name, resp.source_name)

\* the ids a lookup can ask for: every registered key and every id an insert
\* can build
LookupKeys ==
    DOMAIN sources \cup TableNames
    \cup {format_dot(sc, n) : sc \in SchemaNames, n \in TableNames}

\* the producer the in-flight insert of task t is storing
NewProducer(t) ==
    TileSources_add_source(sources, task[t].schema_name,
                           task[t].source_name)[task[t].source_name]

\* C17: while an insert is in flight (its task holds the guard and has not yet
\* stored), a lookup on any worker does not panic; for the id being inserted
\* it returns the complete old producer or the complete new one, NotFound only
\* if the id was absent before; for every other id it returns what the
\* registry holds.
C17_LookupDuringInsertOldOrNew ==
    \A t \in Tasks :
        task[t].pc = "locked" =>
            \A w \in Workers, k \in LookupKeys :
                LET r == get_source(app_tiles[w], k)
                IN  /\ ~r.ok => r.kind = "NotFound"
                    /\ IF k = task[t].source_name
                       THEN \/ r = Ok(NewProducer(t))
                            \/ k \in DOMAIN sources /\ r = Ok(sources[k])
                            \/ k \notin DOMAIN sources /\ ~r.ok
                       ELSE r = get_source(sources, k)

\* C19: a task suspended on pool acquisition or on the existence query does
\* not own the registry lock; the lock is owned only by a task that is past
\* its last suspension point.
C19_NoLockWhileSuspended ==
    \A t \in Tasks :
        /\ task[t].pc \in {"pool", "query", "lock"} => lock # t
        /\ lock = t => task[t].pc = "locked"

C19_Witness ==
    \E t, u \in Tasks :
        /\ task[t].pc = "query"
        /\ task[u].pc = "locked"
        /\ lock = u

\* C20: no step removes a registered id; the store of an insert changes the
\* mapping of its own key only; storing the same (id, producer) again, or
\* repeating the same registration, leaves the registry as it is.
C20_RegistryOnlyGrows ==
    [][/\ DOMAIN sources \subseteq DOMAIN sources'
       /\ DOMAIN tiles \subseteq DOMAIN tiles'
       /\ \A t \in Tasks :
             AddSourceInsert(t) =>
                LET key == task[t].source_name
                IN  /\ key \in DOMAIN sources'
                    /\ \A k \in DOMAIN sources \ {key} : sources'[k] = sources[k]
                    /\ DOMAIN sources' = DOMAIN sources \cup {key}
                    /\ insert_source(sources', key, sources'[key]) = sources'
                    /\ TileSources_add_source(sources', task[t].schema_name, key)
                          = sources'
      ]_vars

C20_Witness ==
    /\ Cardinality(inserted) = 2
    /\ DOMAIN sources = {<<"a">>, <<"c">>}
    /\ sources[<<"c">>] = StaticC
    /\ tiles = TileSources_new(input)

\* C18: a writer that panics while holding the guard does not make the
\* registry unusable: afterwards every task that reaches the lock still
\* acquires it, lookups and catalog reads still answer, and every failed
\* add_source is reported as an explicit error response.
C18_PanickedWriterLeavesRegistryUsable ==
    /\ \A t \in Tasks : task[t].pc = "lock" => Mutex_lock_unwrap(poisoned).ok
    /\ phase = "serving" =>
          \A w \in Workers :
              /\ get_catalog(app_catalog[w]).ok
              /\ get_source(app_tiles[w], <<"c">>).ok
    /\ (resp.op = "add_source" /\ ~resp.res.ok) =>
          resp.res.kind \in {"BadRequest", "InternalServerError"}

----------------------------------------------------------------------------
(* TileSources::get_catalog: the HashMap iterated in some order and          *)
(* collected into a BTreeMap, whose listing is the serialized catalog        *)

MaxCatalog == 3     \* registered ids of the catalog scenario

\* the bytes of the characters used in ids
Byte == "." :> 46 @@ "B" :> 66 @@ "a" :> 97 @@ "b" :> 98 @@ "s" :> 115

\* Ord for String: byte-wise lexicographic comparison
RECURSIVE String_lt(_, _)
String_lt(a, b) ==
    IF b = <<>> THEN FALSE
    ELSE IF a = <<>> THEN TRUE
    ELSE IF Head(a) = Head(b) THEN String_lt(Tail(a), Tail(b))
    ELSE Byte[Head(a)] < Byte[Head(b)]

\* a BTreeMap as its listing: <<key, value>> pairs in ascending key order
Vec_push(listing, key, value) == Append(listing, <<key, value>>)
\* BTreeMap::insert, as collect() applies it to each pair
BTreeMap_insert(listing, key, value) ==
    LET before == SelectSeq(listing, LAMBDA e : String_lt(e[1], key))
        after == SelectSeq(listing, LAMBDA e : String_lt(key, e[1]))
    IN  before \o <<<<key, value>>>> \o after

\* self.0.iter().map(|(id, src)| (id.to_string(), src.get_catalog_entry()))
\* .collect(), the HashMap iterated in the order `order`
RECURSIVE get_catalog_collect(_, _, _)
get_catalog_collect(m, order, listing) ==
    IF order = <<>> THEN listing
    ELSE get_catalog_collect(m, Tail(order),
             BTreeMap_insert(listing, Head(order), get_catalog_entry(m[Head(order)])))

TileSources_get_catalog_listing(m, order) == get_catalog_collect(m, order, <<>>)

\* the orders in which a HashMap with these keys can be iterated
IterOrders(keys) ==
    {o \in [1..Cardinality(keys) -> keys] : \A i, j \in DOMAIN o : i # j => o[i] # o[j]}

CatSource(id, name, description) ==
    PgSource_new(id, <<"SELECT 1">>, FALSE, <<"f()">>,
                 [tilejson_macro(<<>>) EXCEPT !.name = name, !.description = description])
\* the (id, producer) pairs the scenario inserts; one pair is keyed like a
\* dynamically registered table, under a key that is not the producer's id
CatalogInserts ==
    {<<src.id, src>> :
        src \in {CatSource(<<"a">>, Some(<<"a">>), None),
                 CatSource(<<"a">>, Some(<<"b">>), Some(<<"second">>)),
                 CatSource(<<"a", "b">>, None, None),
                 CatSource(<<"a", ".", "b">>, None, None),
                 CatSource(<<"B">>, None, Some(<<"upper">>))}}
    \cup {<<<<"b">>, CatSource(<<"s", ".", "b">>, Some(<<"b">>), None)>>}

InitCatalog ==
    /\ phase = "built"
    /\ input = <<>> /\ tiles = EmptySources
    /\ app_tiles = NoWorkers /\ app_catalog = NoWorkers
    /\ sources = EmptySources /\ lock = 0 /\ poisoned = FALSE /\ tile = NoCall
    /\ task = <<>> /\ inserted = {}
    /\ req = NoCall /\ resp = NoCall

\* insert_source(id, producer) on the registry
CatalogInsert(key, src) ==
    /\ Cardinality(DOMAIN tiles \cup {key}) <= MaxCatalog
    /\ tiles' = insert_source(tiles, key, src)
    /\ UNCHANGED <<phase, input, app_tiles, app_catalog, sources, lock, poisoned,
                   tile, task, inserted, req, resp>>

\* get_catalog() on the registry; the HashMap yields its entries in `order`
CatalogCall(order) ==
    /\ req' = [op |-> "get_catalog", order |-> order]
    /\ resp' = [op |-> "get_catalog", of |-> tiles,
                res |-> TileSources_get_catalog_listing(tiles, order)]
    /\ UNCHANGED <<phase, input, tiles, app_tiles, app_catalog, sources, lock,
                   poisoned, tile, task, inserted>>

NextCatalog ==
    \/ \E e \in CatalogInserts : CatalogInsert(e[1], e[2])
    \/ \E order \in IterOrders(DOMAIN tiles) : CatalogCall(order)

SpecCatalog == InitCatalog /\ [][NextCatalog]_vars

(* Claims about TileSources::get_catalog (SpecCatalog) *)

\* a is before b in lexicographic order: a is a proper prefix of b, or at the
\* first position where they differ a has the smaller byte
LexBefore(a, b) ==
    \/ Len(a) < Len(b) /\ \A i \in 1..Len(a) : a[i] = b[i]
    \/ \E i \in 1..Min(Len(a), Len(b)) :
          /\ \A j \in 1..(i - 1) : a[j] = b[j]
          /\ Byte[a[i]] < Byte[b[i]]

\* C21: the catalog of a registry lists exactly one entry per registered id,
\* keyed by that id and equal to the derived catalog entry of its producer,
\* in ascending lexicographic order of id; the result does not depend on the
\* order in which the map is iterated, so two calls on the same registry give
\* the same result.
C21_CatalogOneSortedEntryPerId ==
    resp.op = "get_catalog" =>
        /\ Len(resp.res) = Cardinality(DOMAIN resp.of)
        /\ {resp.res[i][1] : i \in DOMAIN resp.res} = DOMAIN resp.of
        /\ \A i \in DOMAIN resp.res :
              /\ resp.res[i][2] = get_catalog_entry(resp.of[resp.res[i][1]])
              /\ resp.res[i][2] = TileSources_get_catalog(resp.of)[resp.res[i][1]]
        /\ \A i, j \in DOMAIN resp.res :
              i < j => LexBefore(resp.res[i][1], resp.res[j][1])
        /\ \A order \in IterOrders(DOMAIN resp.of) :
              TileSources_get_catalog_listing(resp.of, order) = resp.res

C21_Witness ==
    /\ resp.op = "get_catalog"
    /\ Len(resp.res) = MaxCatalog
    /\ resp.of = tiles
    /\ \E i \in DOMAIN req.order : i < Len(req.order) /\ LexBefore(req.order[i + 1], req.order[i])
    /\ \E k \in DOMAIN tiles : tiles[k].id # k

====
